---- MODULE Spec2Model ----
(***************************************************************************)
(* Model of conf/mqtt_conf_params.py: the class MqttConfigurationParameters *)
(* whose body binds eight class attributes, one of them                    *)
(* (MQTT_BASIC_TOPIC) computed with str.format from another                *)
(* (MQTT_USERNAME).                                                        *)
(*                                                                         *)
(* The class statement is executed line by line into a namespace; once     *)
(* the class exists callers read attributes (on the class or through an    *)
(* instance) and may assign class attributes.  Two independent             *)
(* initialisations of the module ("first" and "second") run side by side.  *)
(*                                                                         *)
(* A Python str is a sequence of one-character strings; a Python value is  *)
(* a record [kind, val] so that 7883 and "7883" are different values.      *)
(***************************************************************************)
EXTENDS Integers, Sequences, FiniteSets, TLC

(* ---------------------------------------------------------------------- *)
(* Python values                                                           *)
(* ---------------------------------------------------------------------- *)
PyStr(s) == [kind |-> "str", val |-> s]
PyInt(n) == [kind |-> "int", val |-> n]
PyNone == [kind |-> "NoneType", val |-> 0]

(* ---------------------------------------------------------------------- *)
(* The literals of the class body                                          *)
(* ---------------------------------------------------------------------- *)
BrokerAddressLit == <<"<", "B", "R", "O", "K", "E", "R", "_", "I", "P", "_", "A", "D", "D", "R", "E", "S", "S", ">">>
\* A plausible slip: one digit too many.
BrokerPortOutOfRange == 7883 * 10
BrokerPortLit == 7883
ShippedUsername == <<"<", "y", "o", "u", "r", "_", "u", "s", "e", "r", "n", "a", "m", "e", ">">>
PasswordLit == <<"<", "y", "o", "u", "r", "_", "p", "a", "s", "s", "w", "o", "r", "d", ">">>
TopicTemplate == <<"/", "i", "o", "t", "/", "u", "s", "e", "r", "/", "{", "0", "}">>
VehicleLit == <<"v", "e", "h", "i", "c", "l", "e">>
\* A plausible slip: a misspelt segment.
TelemetryMisspelt == <<"t", "e", "l", "e", "m", "e", "t", "r", "i">>
TelemetryLit == <<"t", "e", "l", "e", "m", "e", "t", "r", "y">>
\* A plausible slip: the line above copied without changing the literal.
InfoCopiedFromTelemetry == TelemetryLit
InfoLit == <<"i", "n", "f", "o">>

FirstLine == 3
LastLine == 10
\* the position after the class statement: the class object exists
Defined == LastLine + 1

Fields ==
    {"BROKER_ADDRESS", "BROKER_PORT", "MQTT_USERNAME", "MQTT_PASSWORD",
     "MQTT_BASIC_TOPIC", "VEHICLE_TOPIC", "VEHICLE_TELEMETRY_TOPIC",
     "VEHICLE_INFO_TOPIC"}

(* ---------------------------------------------------------------------- *)
(* Inputs                                                                  *)
(* ---------------------------------------------------------------------- *)
\* the two independent initialisations of the module
Loaders == {"first", "second"}

\* values the operator may have written on line 5 before deployment; the
\* shipped placeholder is one of them
Usernames ==
    {ShippedUsername,
     <<"a", "l", "i", "c", "e">>,
     <<"{", "0", "}">>,
     <<"a", "/", "b">>}

\* a name the class body does not bind
UnboundName == "MQTT_QOS"
Names == Fields \cup {UnboundName}

\* the value a caller assigns (to any name: nothing checks its type)
AssignedValues == {PyStr(<<"b", "o", "b">>)}

\* how a caller reaches an attribute
Vias == {"class", "instance"}

\* at most this many attribute assignments by callers in one run
MaxSetattr == 1

VARIABLES
    username_lit,   \* the str literal on line 5 of the file being loaded
    pc,             \* per initialisation: the next line of the class body
    ns,             \* per initialisation: the class namespace (name -> value)
    nset,           \* attribute assignments made so far
    last            \* the last caller operation and its outcome

vars == <<username_lit, pc, ns, nset, last>>

(* ---------------------------------------------------------------------- *)
(* str.format, as used on line 7                                           *)
(* ---------------------------------------------------------------------- *)
Digits == <<"0", "1", "2", "3", "4", "5", "6", "7", "8", "9">>
IsDigit(c) == \E d \in 1..10 : Digits[d] = c
DigitValue(c) == (CHOOSE d \in 1..10 : Digits[d] = c) - 1

\* the decimal digits of a non-negative int
RECURSIVE Decimal(_)
Decimal(n) ==
    IF n < 10 THEN <<Digits[n + 1]>>
    ELSE Decimal(n \div 10) \o <<Digits[(n % 10) + 1]>>

\* format(value, ""): a str is itself, an int its decimal digits with a
\* leading "-" when negative, None the text "None"
py_format_value(v) ==
    CASE v.kind = "str" -> v.val
      [] v.kind = "int" /\ v.val >= 0 -> Decimal(v.val)
      [] v.kind = "int" /\ v.val < 0 -> <<"-">> \o Decimal(0 - v.val)
      [] v.kind = "NoneType" -> <<"N", "o", "n", "e">>

\* A plausible slip: the substituted text is scanned again for fields.
RECURSIVE FormatRescanFrom(_, _, _, _)
FormatRescanFrom(t, i, args, fuel) ==
    IF i > Len(t) THEN <<>>
    ELSE IF /\ t[i] = "{" /\ i + 2 <= Len(t) /\ IsDigit(t[i + 1])
            /\ t[i + 2] = "}" /\ DigitValue(t[i + 1]) < Len(args)
         THEN (IF fuel > 0
               THEN FormatRescanFrom(py_format_value(args[DigitValue(t[i + 1]) + 1]),
                                     1, args, fuel - 1)
               ELSE <<>>)
              \o FormatRescanFrom(t, i + 3, args, fuel)
    ELSE <<t[i]>> \o FormatRescanFrom(t, i + 1, args, fuel)

str_format_rescan(template, args) == FormatRescanFrom(template, 1, args, 1)

\* One left-to-right pass over the template: "{{" and "}}" are escaped
\* braces, "{d}" is replaced by the formatted d-th positional argument,
\* everything else is copied.  The replacement text is not scanned again.
\* (Templates are well formed and every index is in range, as on line 7.)
RECURSIVE FormatFrom(_, _, _)
FormatFrom(t, i, args) ==
    IF i > Len(t) THEN <<>>
    ELSE IF t[i] = "{" /\ i + 1 <= Len(t) /\ t[i + 1] = "{"
         THEN <<"{">> \o FormatFrom(t, i + 2, args)
    ELSE IF t[i] = "}" /\ i + 1 <= Len(t) /\ t[i + 1] = "}"
         THEN <<"}">> \o FormatFrom(t, i + 2, args)
    ELSE IF /\ t[i] = "{" /\ i + 2 <= Len(t) /\ IsDigit(t[i + 1])
            /\ t[i + 2] = "}" /\ DigitValue(t[i + 1]) < Len(args)
         THEN py_format_value(args[DigitValue(t[i + 1]) + 1])
              \o FormatFrom(t, i + 3, args)
    ELSE <<t[i]>> \o FormatFrom(t, i + 1, args)

str_format(template, args) == FormatFrom(template, 1, args)

(* ---------------------------------------------------------------------- *)
(* The class body, lines 3 to 10                                           *)
(* ---------------------------------------------------------------------- *)
\* the assignment statement on each line: the target name and the
\* expression on the right; line 5 carries the username literal
Stmt(line, lit) ==
    CASE line = 3 -> [target |-> "BROKER_ADDRESS",
                      expr |-> [op |-> "lit", val |-> PyStr(BrokerAddressLit)]]
      [] line = 4 -> [target |-> "BROKER_PORT",
                      expr |-> [op |-> "lit", val |-> PyInt(BrokerPortLit)]]
      [] line = 5 -> [target |-> "MQTT_USERNAME",
                      expr |-> [op |-> "lit", val |-> PyStr(lit)]]
      [] line = 6 -> [target |-> "MQTT_PASSWORD",
                      expr |-> [op |-> "lit", val |-> PyStr(PasswordLit)]]
      [] line = 7 -> [target |-> "MQTT_BASIC_TOPIC",
                      expr |-> [op |-> "format", template |-> TopicTemplate,
                                arg |-> "MQTT_USERNAME"]]
      [] line = 8 -> [target |-> "VEHICLE_TOPIC",
                      expr |-> [op |-> "lit", val |-> PyStr(VehicleLit)]]
      [] line = 9 -> [target |-> "VEHICLE_TELEMETRY_TOPIC",
                      expr |-> [op |-> "lit", val |-> PyStr(TelemetryLit)]]
      [] line = 10 -> [target |-> "VEHICLE_INFO_TOPIC",
                       expr |-> [op |-> "lit", val |-> PyStr(InfoLit)]]

\* the value of an expression in the namespace built so far: a literal is
\* itself, the format call reads its argument from the namespace
Eval(expr, nsl) ==
    IF expr.op = "lit" THEN expr.val
    ELSE PyStr(str_format(expr.template, <<nsl[expr.arg]>>))

\* name = value in a namespace: binds the name, replacing an older binding
Bind(nsl, name, value) ==
    [n \in (DOMAIN nsl) \cup {name} |-> IF n = name THEN value ELSE nsl[n]]

ExecLine(line, lit, nsl) ==
    Bind(nsl, Stmt(line, lit).target, Eval(Stmt(line, lit).expr, nsl))

EmptyNamespace == [n \in {} |-> PyNone]

NoCall ==
    [op |-> "none", loader |-> "first", via |-> "class", name |-> UnboundName,
     value |-> PyNone, outcome |-> "ok", result |-> PyNone]

Init ==
    /\ username_lit \in Usernames
    /\ pc = [l \in Loaders |-> FirstLine]
    /\ ns = [l \in Loaders |-> EmptyNamespace]
    /\ nset = 0
    /\ last = NoCall

\* one line of the class body runs in initialisation l; after line 10 the
\* class object exists with the namespace as its attributes
ClassBodyStep(l) ==
    /\ pc[l] \in FirstLine..LastLine
    /\ ns' = [ns EXCEPT ![l] = ExecLine(pc[l], username_lit, ns[l])]
    /\ pc' = [pc EXCEPT ![l] = pc[l] + 1]
    /\ UNCHANGED <<username_lit, nset, last>>

(* ---------------------------------------------------------------------- *)
(* Callers                                                                 *)
(* ---------------------------------------------------------------------- *)
\* A plausible slip: a getter that rejects values still in <...> form.
type_getattribute_validating(nsl, name) ==
    IF name \notin DOMAIN nsl
    THEN [outcome |-> "AttributeError", result |-> PyNone]
    ELSE IF /\ nsl[name].kind = "str" /\ Len(nsl[name].val) > 0
            /\ nsl[name].val[1] = "<"
         THEN [outcome |-> "ValueError", result |-> PyNone]
    ELSE [outcome |-> "ok", result |-> nsl[name]]

\* Class.name: attribute lookup in the class namespace
type_getattribute(nsl, name) ==
    IF name \in DOMAIN nsl
    THEN [outcome |-> "ok", result |-> nsl[name]]
    ELSE [outcome |-> "AttributeError", result |-> PyNone]

\* MqttConfigurationParameters().name: the class defines no __init__, so a
\* new instance has no attributes of its own and the lookup falls through
\* to the class
object_getattribute(inst_dict, nsl, name) ==
    IF name \in DOMAIN inst_dict
    THEN [outcome |-> "ok", result |-> inst_dict[name]]
    ELSE type_getattribute(nsl, name)

Lookup(via, nsl, name) ==
    IF via = "instance"
    THEN object_getattribute(EmptyNamespace, nsl, name)
    ELSE type_getattribute(nsl, name)

\* a caller reads an attribute, on the class or through a fresh instance
Getattr(l, via, name) ==
    /\ pc[l] = Defined
    /\ last' = [op |-> "getattr", loader |-> l, via |-> via, name |-> name,
                value |-> PyNone,
                outcome |-> Lookup(via, ns[l], name).outcome,
                result |-> Lookup(via, ns[l], name).result]
    /\ UNCHANGED <<username_lit, pc, ns, nset>>

\* A plausible slip: the basic topic kept in step with the username, as a
\* property would.
type_setattr_rederiving(nsl, name, value) ==
    IF name = "MQTT_USERNAME"
    THEN Bind(Bind(nsl, name, value), "MQTT_BASIC_TOPIC",
              PyStr(str_format(TopicTemplate, <<value>>)))
    ELSE Bind(nsl, name, value)

\* A plausible slip: a frozen class, whose attributes cannot be rebound.
type_setattr_frozen(nsl, name, value) == nsl

\* Class.name = value: rebinds the class attribute
type_setattr(nsl, name, value) == Bind(nsl, name, value)

Setattr(l, name, value) ==
    /\ pc[l] = Defined
    /\ nset < MaxSetattr
    /\ ns' = [ns EXCEPT ![l] = type_setattr(ns[l], name, value)]
    /\ nset' = nset + 1
    /\ last' = [op |-> "setattr", loader |-> l, via |-> "class", name |-> name,
                value |-> value,
                outcome |-> "ok", result |-> PyNone]
    /\ UNCHANGED <<username_lit, pc>>

(* ---------------------------------------------------------------------- *)
(* Specifications                                                          *)
(* ---------------------------------------------------------------------- *)
\* loading and reading only
NextLoad ==
    \/ \E l \in Loaders : ClassBodyStep(l)
    \/ \E l \in Loaders, via \in Vias, name \in Names : Getattr(l, via, name)

SpecLoad == Init /\ [][NextLoad]_vars

\* loading, reading and assigning
Next ==
    \/ NextLoad
    \/ \E l \in Loaders, name \in Names, value \in AssignedValues :
          Setattr(l, name, value)

Spec == Init /\ [][Next]_vars

TypeOK ==
    /\ username_lit \in Usernames
    /\ pc \in [Loaders -> FirstLine..Defined]
    /\ nset \in 0..MaxSetattr
    /\ \A l \in Loaders : DOMAIN ns[l] \subseteq Names

(* ---------------------------------------------------------------------- *)
(* Properties                                                              *)
(* ---------------------------------------------------------------------- *)
\* the fixed prefix of the basic topic, and the separator of topic levels
TopicPrefix == <<"/", "i", "o", "t", "/", "u", "s", "e", "r", "/">>
Separator == "/"
Alice == <<"a", "l", "i", "c", "e">>
Bob == <<"b", "o", "b">>

\* a step that is an attribute assignment / an attribute read
IsSetattrStep == nset' = nset + 1
IsGetattrStep == last' # last /\ last'.op = "getattr"

\* C1: once line 7 has run, MQTT_BASIC_TOPIC is the str "/iot/user/"
\* followed by the username written on line 5, whatever that username is:
\* "alice" gives "/iot/user/alice", the shipped placeholder gives
\* "/iot/user/<your_username>".
C1_BasicTopicIsPrefixPlusUsername ==
    \A l \in Loaders :
        pc[l] > 7 =>
            /\ ns[l]["MQTT_BASIC_TOPIC"] = PyStr(TopicPrefix \o username_lit)
            /\ username_lit = Alice =>
                   ns[l]["MQTT_BASIC_TOPIC"] =
                       PyStr(<<"/", "i", "o", "t", "/", "u", "s", "e", "r", "/",
                               "a", "l", "i", "c", "e">>)
            /\ username_lit = ShippedUsername =>
                   ns[l]["MQTT_BASIC_TOPIC"] =
                       PyStr(<<"/", "i", "o", "t", "/", "u", "s", "e", "r", "/",
                               "<", "y", "o", "u", "r", "_", "u", "s", "e", "r",
                               "n", "a", "m", "e", ">">>)

C1_Witness ==
    /\ username_lit = Alice
    /\ pc["first"] = Defined
    /\ last.op = "getattr" /\ last.loader = "first"
    /\ last.name = "MQTT_BASIC_TOPIC"
    /\ last.result = PyStr(TopicPrefix \o Alice)

\* C2 as stated: once the class is defined no field ever changes, whatever
\* callers read or assign.
C2_FieldsNeverChange ==
    [][\A l \in Loaders :
          pc[l] = Defined => \A f \in Fields : ns'[l][f] = ns[l][f]]_vars

\* C2 amended: once the class is defined, a field changes only in a step
\* that assigns that very field of that class, and such a step binds the
\* field to the assigned value; reads and assignments to other names leave
\* it as it was.
C2_FieldsChangeOnlyByAssignment ==
    [][\A l \in Loaders :
          pc[l] = Defined =>
              /\ \A f \in Fields :
                    ns'[l][f] # ns[l][f] =>
                        /\ IsSetattrStep
                        /\ last'.op = "setattr"
                        /\ last'.loader = l
                        /\ last'.name = f
              /\ (IsSetattrStep /\ last'.loader = l) =>
                    /\ last'.name \in DOMAIN ns'[l]
                    /\ ns'[l][last'.name] = last'.value]_vars

C2_Witness ==
    /\ last.op = "setattr" /\ last.loader = "second"
    /\ last.name = "BROKER_PORT"
    /\ ns["second"]["BROKER_PORT"] = PyStr(Bob)
    /\ ns["second"]["BROKER_ADDRESS"] = PyStr(BrokerAddressLit)
    /\ pc["first"] = Defined
    /\ ns["first"]["BROKER_PORT"] = PyInt(BrokerPortLit)

\* C3: assigning MQTT_USERNAME leaves MQTT_BASIC_TOPIC as it was, so when
\* that assignment is the only one made, MQTT_BASIC_TOPIC is still
\* "/iot/user/" followed by the username of line 5, not the new one.
C3_BasicTopicNotRederived ==
    /\ [][\A l \in Loaders :
             (/\ pc[l] = Defined
              /\ IsSetattrStep
              /\ last'.loader = l
              /\ last'.name = "MQTT_USERNAME")
             => ns'[l]["MQTT_BASIC_TOPIC"] = ns[l]["MQTT_BASIC_TOPIC"]]_vars
    /\ [](\A l \in Loaders :
             (/\ nset = 1
              /\ last.op = "setattr"
              /\ last.loader = l
              /\ last.name = "MQTT_USERNAME")
             => /\ ns[l]["MQTT_USERNAME"] = last.value
                /\ ns[l]["MQTT_BASIC_TOPIC"] =
                       PyStr(TopicPrefix \o username_lit))

C3_Witness ==
    /\ nset = 1
    /\ last.op = "setattr" /\ last.loader = "first"
    /\ last.name = "MQTT_USERNAME"
    /\ ns["first"]["MQTT_USERNAME"] = PyStr(Bob)
    /\ username_lit = Alice
    /\ ns["first"]["MQTT_BASIC_TOPIC"] = PyStr(TopicPrefix \o Alice)

\* C4: once line 4 has run, BROKER_PORT is the int 7883, which lies in the
\* port range 1..65535.
C4_BrokerPortInRange ==
    \A l \in Loaders :
        pc[l] > 4 =>
            /\ ns[l]["BROKER_PORT"].kind = "int"
            /\ ns[l]["BROKER_PORT"].val \in 1..65535
            /\ ns[l]["BROKER_PORT"].val = 7883

C4_Witness ==
    /\ pc["first"] = Defined
    /\ last.op = "getattr" /\ last.loader = "first"
    /\ last.name = "BROKER_PORT"
    /\ last.result = PyInt(7883)

\* C5: once the class is defined, each topic segment is a non-empty str
\* with its documented value: "vehicle", "telemetry", "info".
C5_SegmentsAreDocumentedLiterals ==
    \A l \in Loaders :
        pc[l] = Defined =>
            /\ \A f \in {"VEHICLE_TOPIC", "VEHICLE_TELEMETRY_TOPIC",
                         "VEHICLE_INFO_TOPIC"} :
                  ns[l][f].kind = "str" /\ Len(ns[l][f].val) > 0
            /\ ns[l]["VEHICLE_TOPIC"].val = <<"v", "e", "h", "i", "c", "l", "e">>
            /\ ns[l]["VEHICLE_TELEMETRY_TOPIC"].val =
                   <<"t", "e", "l", "e", "m", "e", "t", "r", "y">>
            /\ ns[l]["VEHICLE_INFO_TOPIC"].val = <<"i", "n", "f", "o">>

C5_Witness ==
    /\ pc["second"] = Defined
    /\ last.op = "getattr" /\ last.loader = "second"
    /\ last.name = "VEHICLE_TELEMETRY_TOPIC"
    /\ last.outcome = "ok"
    /\ Len(last.result.val) = 9

\* C7: a read of one of the eight fields changes no field, is never an
\* error, and returns the value the field holds without checking it, the
\* <...> placeholders included.
C7_ReadsArePure ==
    /\ [][IsGetattrStep => (ns' = ns /\ pc' = pc /\ username_lit' = username_lit)]_vars
    /\ [](\A l \in Loaders :
             (/\ last.op = "getattr"
              /\ last.loader = l
              /\ last.name \in Fields)
             => /\ last.outcome = "ok"
                /\ last.result = ns[l][last.name])

C7_Witness ==
    /\ username_lit = ShippedUsername
    /\ last.op = "getattr" /\ last.name = "MQTT_USERNAME"
    /\ last.outcome = "ok"
    /\ last.result = PyStr(ShippedUsername)
    /\ ns[last.loader]["BROKER_ADDRESS"] = PyStr(BrokerAddressLit)
    /\ ns[last.loader]["MQTT_PASSWORD"] = PyStr(PasswordLit)

\* joining a segment under a base topic, and the number of levels of a topic
Contains(s, c) == \E i \in 1..Len(s) : s[i] = c
Join(base, segment) == base \o <<Separator>> \o segment
Levels(s) == Cardinality({i \in 1..Len(s) : s[i] = Separator}) + 1

\* C8: once the class is defined, the three topic segments are pairwise
\* distinct and none contains "/", so joined under MQTT_BASIC_TOPIC with "/"
\* they give pairwise distinct topics, each one level deeper than the base.
C8_SegmentsDistinctSingleLevel ==
    \A l \in Loaders :
        pc[l] = Defined =>
            LET base == ns[l]["MQTT_BASIC_TOPIC"].val
                segs == <<ns[l]["VEHICLE_TOPIC"].val,
                          ns[l]["VEHICLE_TELEMETRY_TOPIC"].val,
                          ns[l]["VEHICLE_INFO_TOPIC"].val>>
            IN  /\ \A i, j \in 1..3 : i # j => segs[i] # segs[j]
                /\ \A i \in 1..3 : ~Contains(segs[i], Separator)
                /\ \A i, j \in 1..3 :
                      i # j => Join(base, segs[i]) # Join(base, segs[j])
                /\ \A i \in 1..3 :
                      Levels(Join(base, segs[i])) = Levels(base) + 1

C8_Witness ==
    /\ pc["first"] = Defined
    /\ last.op = "getattr" /\ last.loader = "first"
    /\ last.name = "VEHICLE_INFO_TOPIC"
    /\ Join(ns["first"]["MQTT_BASIC_TOPIC"].val, last.result.val)
           = TopicPrefix \o username_lit \o <<"/", "i", "n", "f", "o">>

====
